---- MODULE Spec2Model ----
(***************************************************************************)
(* A model of src/postgres/pool/mod.rs: the fixed-size Postgres connection *)
(* pool.  try_new opens pool_size connections one after the other and      *)
(* wraps the InnerConnectionPool in a MutexArc; get_connection takes the   *)
(* lock, waits on the condition while the vector is empty and pops;        *)
(* dropping a PooledPostgresConnection takes the lock and pushes the       *)
(* connection back.                                                        *)
(***************************************************************************)
EXTENDS Integers, Sequences, FiniteSets, TLC

\* ------------------------------------------------------------- bounds
MaxPoolSize == 2
NumThreads == 3

\* ------------------------------------------------------------- values
\* Option::None, also the "no task" value of a free lock and the "no handle"
\* value of a task that was given no PostgresConnectionPool.
None == 0

Threads == 1 .. NumThreads
\* the task that calls try_new
Main == 1
Urls == {"pg://db"}
ConnectError == "PostgresConnectError"
\* Option<PostgresConnectError>::None
NoError == "None"

VARIABLES
    pool_size,  \* try_new's argument
    ctor,       \* where try_new is: "building", "ok" (returned Ok), "err" (returned Err)
    inner,      \* try_new's local `pool`: the InnerConnectionPool being filled
    opens,      \* number of PostgresConnection::try_connect calls made so far
    open,       \* the connections that are open (opened and not yet dropped)
    ret,        \* what try_new returned: "running" until it returns, then "Ok" or the error
    arcs,       \* the heap of MutexArc<InnerConnectionPool>: data, lock holder, reference count
    handle,     \* per task: the PostgresConnectionPool it owns (an arc reference) or None
    pc,         \* per task: where it is in get_connection / drop
    leases,     \* per task: the PooledPostgresConnection values it owns
    cur,        \* per task: index in leases of the value being dropped, or None
    failing     \* per task: the task has failed and is unwinding

vars == <<pool_size, ctor, inner, opens, open, ret, arcs, handle, pc, leases, cur,
          failing>>

\* ------------------------------------------------------------- vectors
\* ~[T]::is_empty
IsEmpty(v) == Len(v) = 0

\* ~[T]::push: appends at the end
Push(v, x) == Append(v, x)

\* pop that removes the last element and returns the first
PopWrongIndex(v) == [val |-> v[1], rest |-> SubSeq(v, 1, Len(v) - 1)]

\* pop that returns the last element and leaves it in the vector
PopPeek(v) == [val |-> v[Len(v)], rest |-> v]

\* ~[T]::pop: removes and returns the last element (guarded by the caller's loop)
Pop(v) == [val |-> v[Len(v)], rest |-> SubSeq(v, 1, Len(v) - 1)]

\* the elements of a vector
Elems(v) == {v[i] : i \in 1 .. Len(v)}

\* a sequence without its i-th element
Without(s, i) == SubSeq(s, 1, i - 1) \o SubSeq(s, i + 1, Len(s))

\* The values a task owns are kept ordered by connection: a task's locals have
\* no order of their own, and any of them may be dropped next.
RECURSIVE Insert(_, _)
Insert(s, l) ==
    IF s = <<>> THEN <<l>>
    ELSE IF l.conn <= s[1].conn THEN <<l>> \o s
    ELSE <<s[1]>> \o Insert(Tail(s), l)

\* a take that reads the value and leaves it in the slot
take_unwrap_copy(slot) == [val |-> slot, left |-> slot]

\* Option::take_unwrap: moves the value out and leaves None behind
take_unwrap(slot) == [val |-> slot, left |-> None]

\* ------------------------------------------------------------- construction
\* The connections closed when the PostgresConnection values conns are dropped:
\* a PostgresConnection closes itself when it is dropped (its destructor is in
\* the parent module).
CloseOnDrop(conns) == conns

\* PostgresConnection::try_connect(url): the id-th connection, or a connect error
try_connect(url, id, ok) ==
    IF ok THEN [ok |-> TRUE, conn |-> id, err |-> NoError]
    ELSE [ok |-> FALSE, conn |-> None, err |-> ConnectError]

\* a new_connection that pushes whatever the connect gave, the error case too
new_connection_dirty(self, id, ok) ==
    LET r == try_connect(self.url, id, ok)
    IN  [self |-> [self EXCEPT !.pool = Push(self.pool, r.conn)], err |-> r.err]

\* InnerConnectionPool::new_connection: push on success, the error otherwise
new_connection(self, id, ok) ==
    LET r == try_connect(self.url, id, ok)
    IN  IF r.ok
        THEN [self |-> [self EXCEPT !.pool = Push(self.pool, r.conn)], err |-> NoError]
        ELSE [self |-> self, err |-> r.err]

\* a loop that stops one connection short
LoopCondOffByOne(len, size) == len + 1 < size

\* a loop that runs once more
LoopCondLe(len, size) == len <= size

\* the loop condition of try_new
LoopCond(len, size) == len < size

\* a match whose error arm tries again
LoopMatchRetry(err) == "loop"

\* a match whose error arm leaves the loop instead of returning the error
LoopMatchBreak(err) == IF err = NoError THEN "loop" ELSE "break"

\* the match on new_connection's result in try_new's loop
LoopMatch(err) == IF err = NoError THEN "loop" ELSE "return_err"

\* the moved-from local after try_new returned
Moved == [url |-> "", pool |-> <<>>]

\* MutexArc::new(pool): a new arc, unlocked, one reference
MutexArcNew(data) == [data |-> data, lock |-> None, refs |-> 1]

\* Ok(PostgresConnectionPool { pool: MutexArc::new(pool) })
ReturnOk(data) ==
    /\ arcs' = Append(arcs, MutexArcNew(data))
    /\ handle' = [handle EXCEPT ![Main] = Len(arcs) + 1]
    /\ ctor' = "ok"
    /\ ret' = "Ok"
    /\ inner' = Moved

\* one iteration of try_new's while loop
TryNewConnect(ok) ==
    /\ ctor = "building"
    /\ LoopCond(Len(inner.pool), pool_size)
    /\ LET id == opens + 1
           r == new_connection(inner, id, ok)
           next == LoopMatch(r.err)
       IN  /\ opens' = id
           /\ IF next = "loop"
              THEN /\ inner' = r.self
                   /\ open' = IF ok THEN open \cup {id} ELSE open
                   /\ UNCHANGED <<ctor, ret, arcs, handle>>
              ELSE IF next = "return_err"
              THEN \* return Err(err): the local pool and its connections are dropped
                   /\ inner' = Moved
                   /\ open' = open \ CloseOnDrop(Elems(r.self.pool))
                   /\ ctor' = "err"
                   /\ ret' = r.err
                   /\ UNCHANGED <<arcs, handle>>
              ELSE \* leaving the loop: no arm of the source's match does
                   /\ open' = IF ok THEN open \cup {id} ELSE open
                   /\ ReturnOk(r.self)
    /\ UNCHANGED <<pool_size, pc, leases, cur, failing>>

\* the loop ends: try_new returns Ok
TryNewOk ==
    /\ ctor = "building"
    /\ ~LoopCond(Len(inner.pool), pool_size)
    /\ ReturnOk(inner)
    /\ UNCHANGED <<pool_size, opens, open, pc, leases, cur, failing>>

\* ------------------------------------------------------------- handles
\* dropping a PostgresConnectionPool: one reference less; the last reference
\* frees the InnerConnectionPool and with it the connections in its vector
DropRef(heap, a) ==
    [heap EXCEPT ![a].refs = @ - 1,
                 ![a].data.pool = IF heap[a].refs = 1 THEN <<>> ELSE @]

\* the connections closed when a reference to arc a is dropped
ClosedByDropRef(heap, a) ==
    IF heap[a].refs = 1 THEN CloseOnDrop(Elems(heap[a].data.pool)) ELSE {}

\* ------------------------------------------------------------- get_connection
\* the vector of arc a
Idle(a) == arcs[a].data.pool

\* the handle get_connection was called on
Self(t) == handle[t]

\* a lock that is granted whether or not it is held
CanLockAlways(heap, a) == TRUE

\* the mutex of arc a grants the lock only when no task holds it
CanLock(heap, a) == heap[a].lock = None

\* cvar.wait() that blocks without giving the lock up
WaitKeepsLock(heap, a) == heap

\* cvar.wait() gives the lock of arc a up before it blocks
WaitUnlock(heap, a) == [heap EXCEPT ![a].lock = None]

\* a task calls get_connection and is granted the lock (unsafe_access_cond):
\* the closure starts at the loop's first test
GetConnectionLock(t) ==
    /\ pc[t] = "idle" /\ handle[t] # None /\ ~failing[t]
    /\ CanLock(arcs, Self(t))
    /\ arcs' = [arcs EXCEPT ![Self(t)].lock = t]
    /\ pc' = [pc EXCEPT ![t] = "gc_check"]
    /\ UNCHANGED <<pool_size, ctor, inner, opens, open, ret, handle, leases, cur, failing>>

\* `if` in place of `while`: no test after cvar.wait() has returned
WaitLoopTestNever(v, afterWait) == FALSE

\* a loop that tests only on entry
WaitLoopTestOnce(v, afterWait) == IsEmpty(v) /\ ~afterWait

\* the test of `while pool.pool.is_empty()`: it is made on entry and again each
\* time cvar.wait() has returned
WaitLoopTest(v, afterWait) == IsEmpty(v)

\* PooledPostgresConnection { pool: self.clone(), conn: Some(conn) }
NewLease(ref, conn) == [pool |-> ref, conn |-> conn]

\* a clone that copies the InnerConnectionPool into an arc of its own
CloneDeep(heap, a) ==
    [ref |-> Len(heap) + 1,
     heap |-> Append(heap, [heap[a] EXCEPT !.lock = None, !.refs = 1])]

\* #[deriving(Clone)] on PostgresConnectionPool: MutexArc::clone, a new reference
\* to the same arc
Clone(heap, a) == [ref |-> a, heap |-> [heap EXCEPT ![a].refs = @ + 1]]

\* The closure of get_connection from a test of its loop on, under the lock.
\* On an empty vector cvar.wait() starts: it gives the lock up and blocks.
\* Otherwise pool.pool.pop(), the end of the closure (the lock is given up) and
\* the construction of the returned PooledPostgresConnection.  pop() on an
\* empty vector fails the task inside the closure.
GetConnectionTake(t) ==
    /\ pc[t] \in {"gc_check", "gc_recheck"}
    /\ LET v == Idle(Self(t))
       IN  IF WaitLoopTest(v, pc[t] = "gc_recheck")
           THEN /\ arcs' = WaitUnlock(arcs, Self(t))
                /\ pc' = [pc EXCEPT ![t] = "gc_wait"]
                /\ UNCHANGED leases
           ELSE IF IsEmpty(v)
           THEN /\ pc' = [pc EXCEPT ![t] = "failed"]
                /\ UNCHANGED <<arcs, leases>>
           ELSE LET r == Pop(v)
                    unlocked == [arcs EXCEPT ![Self(t)].data.pool = r.rest,
                                             ![Self(t)].lock = None]
                    c == Clone(unlocked, Self(t))
                IN  /\ arcs' = c.heap
                    /\ leases' = [leases EXCEPT ![t] = Insert(@, NewLease(c.ref, r.val))]
                    /\ pc' = [pc EXCEPT ![t] = "idle"]
    /\ UNCHANGED <<pool_size, ctor, inner, opens, open, ret, handle, cur, failing>>

\* a task blocked in cvar.wait() is woken with no signal sent (no statement of
\* the source signals the condition)
SpuriousWake(t) ==
    /\ pc[t] = "gc_wait"
    /\ pc' = [pc EXCEPT ![t] = "gc_relock"]
    /\ UNCHANGED <<pool_size, ctor, inner, opens, open, ret, arcs, handle, leases, cur,
                   failing>>

\* the end of cvar.wait(): the woken task takes the lock again and goes back
\* to the loop's test
CvarRelock(t) ==
    /\ pc[t] = "gc_relock"
    /\ CanLock(arcs, Self(t))
    /\ arcs' = [arcs EXCEPT ![Self(t)].lock = t]
    /\ pc' = [pc EXCEPT ![t] = "gc_recheck"]
    /\ UNCHANGED <<pool_size, ctor, inner, opens, open, ret, handle, leases, cur, failing>>

\* ------------------------------------------------------------- drop
\* how the value a task drops left scope: the scope was left by a return
\* (at its end or early), or the task failed and unwinds
ExitPath(t) == IF failing[t] THEN "unwind" ELSE "return"

\* a PooledPostgresConnection of task t goes out of scope: drop() is called and
\* asks for the lock (unsafe_access).  A failing task unwinds through the same drop.
ScopeExit(t, i) ==
    /\ pc[t] = "idle"
    /\ i \in 1 .. Len(leases[t])
    /\ pc' = [pc EXCEPT ![t] = "dr_lock"]
    /\ cur' = [cur EXCEPT ![t] = i]
    /\ UNCHANGED <<pool_size, ctor, inner, opens, open, ret, arcs, handle, leases, failing>>

\* the PooledPostgresConnection being dropped by task t
Dropping(t) == leases[t][cur[t]]

\* the lock is granted: drop's closure starts
DropLock(t) ==
    /\ pc[t] = "dr_lock"
    /\ CanLock(arcs, Dropping(t).pool)
    /\ arcs' = [arcs EXCEPT ![Dropping(t).pool].lock = t]
    /\ pc' = [pc EXCEPT ![t] = "dr_push"]
    /\ UNCHANGED <<pool_size, ctor, inner, opens, open, ret, handle, leases, cur, failing>>

\* a drop that pushes the connection twice
ReturnToPoolFront(v, conn) == <<conn>> \o v

\* a drop that pushes the connection twice
ReturnToPoolTwice(v, conn) == Push(Push(v, conn), conn)

\* a drop that takes the connection out and pushes nothing
ReturnToPoolLost(v, conn) == v

\* pool.pool.push(conn) in drop's closure
ReturnToPool(v, conn) == Push(v, conn)

\* the tasks waiting on the condition of arc a
Waiting(a) == {w \in Threads : pc[w] = "gc_wait" /\ Self(w) = a}

\* the tasks drop's closure wakes: unsafe_access hands the closure no condition
\* and the closure signals nothing
DropSignals(waiting) == {}

\* pool.pool.push(self.conn.take_unwrap()) and the end of the closure (the lock
\* is given up).  take_unwrap() on None fails the task inside the closure.
DropPush(t) ==
    /\ pc[t] = "dr_push"
    /\ LET a == Dropping(t).pool
           tk == take_unwrap(Dropping(t).conn)
           sig == DropSignals(Waiting(a))
       IN  IF tk.val = None
           THEN /\ pc' = [pc EXCEPT ![t] = "failed"]
                /\ UNCHANGED <<arcs, leases>>
           ELSE /\ arcs' = [arcs EXCEPT ![a].data.pool = ReturnToPool(@, tk.val),
                                        ![a].lock = None]
                /\ leases' = [leases EXCEPT ![t][cur[t]].conn = tk.left]
                /\ pc' = [w \in Threads |->
                            IF w = t THEN "dr_fields"
                            ELSE IF w \in sig THEN "gc_relock" ELSE pc[w]]
    /\ UNCHANGED <<pool_size, ctor, inner, opens, open, ret, handle, cur, failing>>

\* after drop() returned the fields of the value are dropped: its handle gives
\* up one reference, and the value is gone
DropFields(t) ==
    /\ pc[t] = "dr_fields"
    /\ arcs' = DropRef(arcs, Dropping(t).pool)
    /\ open' = open \ ClosedByDropRef(arcs, Dropping(t).pool)
    /\ leases' = [leases EXCEPT ![t] = Without(@, cur[t])]
    /\ cur' = [cur EXCEPT ![t] = None]
    /\ pc' = [pc EXCEPT ![t] = "idle"]
    /\ UNCHANGED <<pool_size, ctor, inner, opens, ret, handle, failing>>

\* ------------------------------------------------------------- forwarding
\* the methods of PooledPostgresConnection
ForwardOps == {"try_prepare", "prepare", "try_update", "update", "in_transaction"}

\* those that fail the task on a database error instead of returning it (in
\* in_transaction, the caller's block may fail)
FailingOps == {"prepare", "update", "in_transaction"}

\* a get_ref that moves the connection out of the slot
get_ref_take(slot) == [val |-> slot, left |-> None]

\* Option::get_ref: a reference to the value, which stays in the slot
get_ref(slot) == [val |-> slot, left |-> slot]

\* self.conn.get_ref().op(...): the call is passed on to the connection.
\* get_ref() on None fails the task; a database error fails it in the
\* methods that do not return a Result.
Forward(t, i, op, dberr) ==
    /\ pc[t] = "idle" /\ ~failing[t]
    /\ i \in 1 .. Len(leases[t])
    /\ op \in ForwardOps
    /\ LET g == get_ref(leases[t][i].conn)
       IN  IF g.val = None
           THEN /\ pc' = [pc EXCEPT ![t] = "failed"]
                /\ UNCHANGED <<leases, failing>>
           ELSE /\ leases' = [leases EXCEPT ![t][i].conn = g.left]
                /\ failing' = [failing EXCEPT ![t] = dberr /\ op \in FailingOps]
                /\ UNCHANGED pc
    /\ UNCHANGED <<pool_size, ctor, inner, opens, open, ret, arcs, handle, cur>>

\* ------------------------------------------------------------- sharing
\* a task hands a clone of its handle to a new task; tasks are started in the
\* order of their numbers
HandleClone(t, u) ==
    /\ pc[t] = "idle" /\ handle[t] # None /\ ~failing[t]
    /\ pc[u] = "idle" /\ handle[u] = None
    /\ \A w \in Threads : w < u => (handle[w] # None \/ pc[w] = "dead")
    /\ LET c == Clone(arcs, handle[t])
       IN  /\ arcs' = c.heap
           /\ handle' = [handle EXCEPT ![u] = c.ref]
    /\ UNCHANGED <<pool_size, ctor, inner, opens, open, ret, pc, leases, cur,
                   failing>>

\* ------------------------------------------------------------- task failure
\* a task fails in its own code while it holds no lock: it starts to unwind
TaskFail(t) ==
    /\ pc[t] = "idle" /\ handle[t] # None /\ ~failing[t]
    /\ failing' = [failing EXCEPT ![t] = TRUE]
    /\ UNCHANGED <<pool_size, ctor, inner, opens, open, ret, arcs, handle, pc, leases,
                   cur>>

\* the unwinding ends when every value of the task is dropped, its handle last
TaskExit(t) ==
    /\ pc[t] = "idle" /\ failing[t] /\ leases[t] = <<>>
    /\ arcs' = DropRef(arcs, handle[t])
    /\ open' = open \ ClosedByDropRef(arcs, handle[t])
    /\ handle' = [handle EXCEPT ![t] = None]
    /\ pc' = [pc EXCEPT ![t] = "dead"]
    /\ UNCHANGED <<pool_size, ctor, inner, opens, ret, leases, cur, failing>>

Init ==
    /\ pool_size \in 0 .. MaxPoolSize
    /\ ctor = "building"
    /\ \E u \in Urls : inner = [url |-> u, pool |-> <<>>]
    /\ opens = 0
    /\ open = {}
    /\ ret = "running"
    /\ arcs = <<>>
    /\ handle = [t \in Threads |-> None]
    /\ pc = [t \in Threads |-> "idle"]
    /\ leases = [t \in Threads |-> <<>>]
    /\ cur = [t \in Threads |-> None]
    /\ failing = [t \in Threads |-> FALSE]

Next ==
    \/ \E ok \in BOOLEAN : TryNewConnect(ok)
    \/ TryNewOk
    \/ \E t, u \in Threads : HandleClone(t, u)
    \/ \E t \in Threads : GetConnectionLock(t)
    \/ \E t \in Threads : GetConnectionTake(t)
    \/ \E t \in Threads : SpuriousWake(t)
    \/ \E t \in Threads : CvarRelock(t)
    \/ \E t \in Threads : \E i \in 1 .. Len(leases[t]) : ScopeExit(t, i)
    \/ \E t \in Threads : DropLock(t)
    \/ \E t \in Threads : DropPush(t)
    \/ \E t \in Threads : DropFields(t)
    \/ \E t \in Threads : \E i \in 1 .. Len(leases[t]) :
          \E op \in ForwardOps : \E dberr \in BOOLEAN : Forward(t, i, op, dberr)
    \/ \E t \in Threads : TaskFail(t)
    \/ \E t \in Threads : TaskExit(t)

Spec == Init /\ [][Next]_vars

\* The program with a condition that wakes a waiting task only when it is
\* signalled, and a scheduler that lets every started step of an operation run:
\* the mutex of extra::sync queues its waiters, so a task that asks for the lock
\* gets it.
NextSignalOnly ==
    \/ \E ok \in BOOLEAN : TryNewConnect(ok)
    \/ TryNewOk
    \/ \E t, u \in Threads : HandleClone(t, u)
    \/ \E t \in Threads : GetConnectionLock(t)
    \/ \E t \in Threads : GetConnectionTake(t)
    \/ \E t \in Threads : \E i \in 1 .. Len(leases[t]) : ScopeExit(t, i)
    \/ \E t \in Threads : DropLock(t)
    \/ \E t \in Threads : DropPush(t)
    \/ \E t \in Threads : DropFields(t)
    \/ \E t \in Threads : \E i \in 1 .. Len(leases[t]) :
          \E op \in ForwardOps : \E dberr \in BOOLEAN : Forward(t, i, op, dberr)
    \/ \E t \in Threads : TaskFail(t)
    \/ \E t \in Threads : TaskExit(t)

Fairness ==
    /\ WF_vars(\E ok \in BOOLEAN : TryNewConnect(ok))
    /\ WF_vars(TryNewOk)
    /\ \A t \in Threads :
          /\ WF_vars(GetConnectionTake(t))
          /\ SF_vars(DropLock(t))
          /\ WF_vars(DropPush(t))
          /\ WF_vars(DropFields(t))

FairSpec == Init /\ [][NextSignalOnly]_vars /\ Fairness
\* ============================================================= properties
\* the PooledPostgresConnection values of all tasks, as <<task, index>>
SlotsOf(ls) == UNION {{<<t, i>> : i \in 1 .. Len(ls[t])} : t \in Threads}

\* those that hold a connection
HeldOf(ls) == {p \in SlotsOf(ls) : ls[p[1]][p[2]].conn # None}

\* those that hold a connection of arc a
HeldFrom(ls, a) == {p \in HeldOf(ls) : ls[p[1]][p[2]].pool = a}

\* the connections held by PooledPostgresConnection values
LeasedConns == {leases[p[1]][p[2]].conn : p \in HeldOf(leases)}

\* the arcs that some handle still refers to
LiveArcs(heap) == {a \in DOMAIN heap : heap[a].refs > 0}

\* idle plus leased is the pool size, for every live pool
ConservationOf(heap, ls) ==
    \A a \in LiveArcs(heap) :
        /\ Len(heap[a].data.pool) + Cardinality(HeldFrom(ls, a)) = pool_size
        /\ Len(heap[a].data.pool) <= pool_size

\* ------------------------------------------------------------- C1
\* C1: once a task is blocked in get_connection's cvar.wait() and a connection
\* has been pushed back (the vector is not empty), it does not stay so for
\* ever: a waiting task leaves the wait or the connection is taken.  Stated
\* under FairSpec, where a waiting task resumes only when signalled.
C1_ReleaseUnblocksWaiter ==
    (\E a \in DOMAIN arcs : Waiting(a) # {} /\ ~IsEmpty(Idle(a)))
        ~> (\A a \in DOMAIN arcs : Waiting(a) = {} \/ IsEmpty(Idle(a)))

\* ------------------------------------------------------------- C2
\* C2: in every state of a constructed pool that is still referred to, the
\* number of connections in the vector plus the number held by
\* PooledPostgresConnection values is pool_size, and the vector holds between
\* 0 and pool_size connections.
C2_Conservation == ConservationOf(arcs, leases)

\* one connection idle and one leased, after a drop has pushed
C2_Witness ==
    /\ ctor = "ok" /\ pool_size = MaxPoolSize
    /\ \E a \in LiveArcs(arcs) : Len(Idle(a)) = 1
    /\ Cardinality(HeldOf(leases)) >= 1
    /\ \E t \in Threads : pc[t] = "dr_fields"

\* ------------------------------------------------------------- C3
\* C3: no connection is held by two PooledPostgresConnection values at once,
\* and no connection is both in a pool's vector and held by one.
C3_MutualExclusion ==
    /\ \A p, q \in HeldOf(leases) :
          p # q => leases[p[1]][p[2]].conn # leases[q[1]][q[2]].conn
    /\ \A a \in DOMAIN arcs : Elems(Idle(a)) \cap LeasedConns = {}

\* two tasks hold a connection each
C3_Witness ==
    \E t, u \in Threads :
        /\ t # u
        /\ \E i \in 1 .. Len(leases[t]) : leases[t][i].conn # None
        /\ \E j \in 1 .. Len(leases[u]) : leases[u][j].conn # None

\* ------------------------------------------------------------- C4
\* C4: a step of get_connection's closure made on an empty vector starts
\* cvar.wait() and never pops (pop on an empty vector would fail the task), on
\* entry and after every return of cvar.wait(); a get_connection that returns
\* held the lock, found the vector non-empty and returns a value holding a
\* connection taken from it.
C4_AcquireOnlyFromNonEmpty ==
    [][\A t \in Threads :
         pc[t] \in {"gc_check", "gc_recheck"} =>
            /\ pc'[t] # "failed"
            /\ IsEmpty(Idle(Self(t))) => pc'[t] \in {pc[t], "gc_wait"}
            /\ pc'[t] = "idle" =>
                 /\ arcs[Self(t)].lock = t
                 /\ ~IsEmpty(Idle(Self(t)))
                 /\ Len(leases'[t]) = Len(leases[t]) + 1
                 /\ \E i \in 1 .. Len(leases'[t]) :
                       /\ leases'[t][i].conn \in Elems(Idle(Self(t)))
                       /\ leases'[t][i].conn \notin Elems(arcs'[Self(t)].data.pool)]_vars

\* two woken tasks race for the one connection in the vector: one holds the
\* lock at the loop's test, the other waits to take the lock again
C4_Witness ==
    \E t, u \in Threads :
        /\ t # u
        /\ pc[t] = "gc_recheck" /\ pc[u] = "gc_relock"
        /\ Self(t) = Self(u)
        /\ Len(Idle(Self(t))) = 1

\* ------------------------------------------------------------- C5
\* C5: whichever way the value left scope (return or unwinding), the push step
\* of its drop puts exactly the connection it held into the vector, which grows
\* by exactly one, and idle plus leased is pool_size again.
C5_ReturnOnScopeExit ==
    [][\A t \in Threads :
         (pc[t] = "dr_push" /\ pc'[t] # "dr_push") =>
            LET a == Dropping(t).pool
                c == Dropping(t).conn
            IN  /\ ExitPath(t) \in {"return", "unwind"}
                /\ c # None
                /\ c \notin Elems(Idle(a))
                /\ Len(arcs'[a].data.pool) = Len(Idle(a)) + 1
                /\ Elems(arcs'[a].data.pool) = Elems(Idle(a)) \cup {c}
                /\ ConservationOf(arcs', leases')]_vars

\* a failing task has unwound through drop and its connection is back
C5_Witness ==
    \E t \in Threads :
        /\ ExitPath(t) = "unwind"
        /\ pc[t] = "dr_fields"
        /\ Dropping(t).conn = None
        /\ ~IsEmpty(Idle(Dropping(t).pool))

\* ------------------------------------------------------------- C6
\* C6: a step of try_new in which the connection attempt fails makes try_new
\* return the error, and after try_new returned an error there is no arc, no
\* task has a handle and no get_connection was started.
C6_FailureExposesNoPool ==
    /\ [][(opens' = opens + 1 /\ opens' \notin open') =>
             (ctor' = "err" /\ ret' = ConnectError)]_vars
    /\ [](ctor = "err" =>
             /\ arcs = <<>>
             /\ \A t \in Threads :
                   handle[t] = None /\ pc[t] = "idle" /\ leases[t] = <<>>)

\* the second of two attempts failed
C6_Witness == ctor = "err" /\ pool_size = MaxPoolSize /\ opens = MaxPoolSize

\* ------------------------------------------------------------- C7
\* C7: the step in which try_new returns Ok comes after exactly pool_size
\* try_connect calls and yields one arc whose vector holds pool_size distinct
\* open connections, with no PooledPostgresConnection in existence.
C7_ConstructionExact ==
    [][(ctor = "building" /\ ctor' = "ok") =>
          /\ opens' = pool_size
          /\ Len(arcs') = Len(arcs) + 1
          /\ LET v == arcs'[Len(arcs')].data.pool
             IN  /\ Len(v) = pool_size
                 /\ Cardinality(Elems(v)) = pool_size
                 /\ Elems(v) = open'
          /\ SlotsOf(leases') = {}]_vars

\* a pool of two, just built
C7_Witness ==
    /\ ctor = "ok" /\ pool_size = MaxPoolSize /\ opens = MaxPoolSize
    /\ \E a \in DOMAIN arcs : Len(Idle(a)) = MaxPoolSize
    /\ SlotsOf(leases) = {}

\* ------------------------------------------------------------- C8
\* C8: with pool_size = 0 try_new makes no try_connect call and returns no
\* error; the vector of the pool is empty in every state and no get_connection
\* returns (no PooledPostgresConnection ever exists).
C8_ZeroCapacity ==
    pool_size = 0 =>
        /\ opens = 0
        /\ ctor # "err"
        /\ \A a \in DOMAIN arcs : IsEmpty(Idle(a))
        /\ SlotsOf(leases) = {}

\* on a pool of size 0 one task waits and another, woken, tests again
C8_Witness ==
    /\ pool_size = 0 /\ ctor = "ok"
    /\ \E t, u \in Threads : pc[t] = "gc_wait" /\ pc[u] = "gc_recheck"

\* ------------------------------------------------------------- C9
\* C9: the step that gives a task a clone of a handle changes no pool's vector
\* and no PooledPostgresConnection, and every handle, held by a task or by a
\* PooledPostgresConnection, refers to the one arc: what a drop pushes through
\* one handle is in the vector a get_connection through any other reads.
C9_CloneSharesState ==
    /\ [][(ctor = "ok" /\ \E u \in Threads : handle[u] = None /\ handle'[u] # None) =>
             /\ leases' = leases
             /\ \A a \in DOMAIN arcs : arcs'[a].data = arcs[a].data]_vars
    /\ [](/\ Len(arcs) <= 1
          /\ \A t \in Threads : handle[t] \in {None} \cup DOMAIN arcs
          /\ \A p \in SlotsOf(leases) : leases[p[1]][p[2]].pool \in DOMAIN arcs)

\* the task that built the pool has pushed its connection back and a task that
\* holds a clone, at the loop's test, finds it in the vector
C9_Witness ==
    /\ pc[Main] = "dr_fields"
    /\ \E u \in Threads :
          /\ u # Main /\ pc[u] = "gc_check"
          /\ Self(u) = Dropping(Main).pool
          /\ ~IsEmpty(Idle(Self(u)))

\* ------------------------------------------------------------- C10
\* C10: the push step of a drop, made while tasks wait on the condition of
\* that pool, wakes one of them.
C10_ReleaseSignalsWaiter ==
    [][\A t \in Threads :
         (pc[t] = "dr_push" /\ pc'[t] = "dr_fields"
            /\ Waiting(Dropping(t).pool) # {}) =>
         \E w \in Waiting(Dropping(t).pool) : pc'[w] # "gc_wait"]_vars
\* ------------------------------------------------------------- C11
\* C11: the push step of a drop takes the connection out of the value's slot,
\* which is left empty, and pushes it once; the value is then gone at its
\* owner's next step with nothing more pushed, so no slot is emptied twice and
\* no vector ever holds a connection twice.
C11_ExactlyOnceRelease ==
    /\ [][\A t \in Threads :
            /\ (pc[t] = "dr_push" /\ pc'[t] # "dr_push") =>
                  /\ pc'[t] = "dr_fields"
                  /\ Dropping(t).conn # None
                  /\ leases'[t][cur[t]].conn = None
                  /\ arcs'[Dropping(t).pool].data.pool
                        = Append(Idle(Dropping(t).pool), Dropping(t).conn)
            /\ (pc[t] = "dr_fields" /\ pc'[t] # "dr_fields") =>
                  /\ pc'[t] = "idle"
                  /\ Len(leases'[t]) = Len(leases[t]) - 1
                  /\ \A a \in LiveArcs(arcs') : arcs'[a].data.pool = Idle(a)]_vars
    /\ [](/\ \A a \in DOMAIN arcs : Cardinality(Elems(Idle(a))) = Len(Idle(a))
          /\ \A p \in SlotsOf(leases) :
                leases[p[1]][p[2]].conn = None =>
                    (pc[p[1]] = "dr_fields" /\ cur[p[1]] = p[2]))

\* every connection is back in the vector and the last value dropped, its slot
\* empty, is not yet gone
C11_Witness ==
    /\ pool_size = MaxPoolSize
    /\ \E t \in Threads :
          /\ pc[t] = "dr_fields"
          /\ Dropping(t).conn = None
          /\ Len(Idle(Dropping(t).pool)) = MaxPoolSize
          /\ Cardinality(Elems(Idle(Dropping(t).pool))) = MaxPoolSize
\* ------------------------------------------------------------- C12
\* C12: the try_new step whose attempt fails is the last try_connect call (the
\* k-th call after k-1 successes), try_new returns that attempt's error in the
\* same step, and the k-1 connections opened before are closed: after the
\* error no connection is open and no further call is made.
C12_AbortWithoutLeaks ==
    /\ [][(opens' = opens + 1 /\ opens' \notin open') =>
             /\ ctor' = "err"
             /\ ret' = ConnectError
             /\ opens' = Len(inner.pool) + 1
             /\ open' = {}]_vars
    /\ [][ctor = "err" => (opens' = opens /\ ctor' = "err" /\ ret' = ret)]_vars
    /\ [](ctor = "err" => (open = {} /\ ret = ConnectError /\ opens <= pool_size))

\* try_new returned the error of its last attempt, after one success
C12_Witness ==
    /\ ctor = "err" /\ ret = ConnectError
    /\ pool_size = MaxPoolSize /\ opens = MaxPoolSize /\ opens > 1
    /\ open = {}
\* ------------------------------------------------------------- C13
\* the connections try_new created
Conns == 1 .. pool_size

\* the vectors of the heap; a step that changes neither them nor the values
\* moves no connection
PoolsOf(heap) == [a \in DOMAIN heap |-> heap[a].data.pool]

\* where connection c is: in a vector, held by a value, both or neither
ConnState(c, heap, ls) ==
    LET idle == \E a \in DOMAIN heap :
                    \E i \in 1 .. Len(heap[a].data.pool) : heap[a].data.pool[i] = c
        leased == \E t \in Threads : \E i \in 1 .. Len(ls[t]) : ls[t][i].conn = c
    IN  IF idle /\ leased THEN "BOTH"
        ELSE IF idle THEN "IDLE"
        ELSE IF leased THEN "LEASED"
        ELSE "GONE"

\* C13: while the pool is referred to, each connection try_new created is
\* idle or leased and never both or neither, the vector and the values hold
\* no other connection, a connection goes from idle to leased only in the
\* returning step of a get_connection that then holds it, and from leased to
\* idle only in the push step of the drop of the value that held it.
C13_ConnectionStateMachine ==
    /\ [](LiveArcs(arcs) # {} =>
            /\ \A c \in Conns : ConnState(c, arcs, leases) \in {"IDLE", "LEASED"}
            /\ LeasedConns \cup UNION {Elems(Idle(a)) : a \in DOMAIN arcs} = Conns
            /\ open = Conns)
    /\ [][(/\ PoolsOf(arcs') # PoolsOf(arcs) \/ leases' # leases
           /\ LiveArcs(arcs) # {} /\ LiveArcs(arcs') # {}) =>
            \A c \in Conns :
               LET before == ConnState(c, arcs, leases)
                   after == ConnState(c, arcs', leases')
               IN  \/ after = before
                   \/ before \notin {"IDLE", "LEASED"}
                   \/ /\ before = "IDLE" /\ after = "LEASED"
                      /\ \E t \in Threads :
                            /\ pc[t] \in {"gc_check", "gc_recheck"} /\ pc'[t] = "idle"
                            /\ \E i \in 1 .. Len(leases'[t]) : leases'[t][i].conn = c
                   \/ /\ before = "LEASED" /\ after = "IDLE"
                      /\ \E t \in Threads :
                            /\ pc[t] = "dr_push" /\ pc'[t] = "dr_fields"
                            /\ Dropping(t).conn = c]_vars

\* one connection is leased while another has been pushed back by a drop
C13_Witness ==
    /\ pool_size = MaxPoolSize
    /\ \E c, d \in Conns :
          /\ c < d
          /\ ConnState(c, arcs, leases) = "LEASED"
          /\ ConnState(d, arcs, leases) = "IDLE"
    /\ \E t \in Threads : pc[t] = "dr_fields" /\ Dropping(t).conn = None
\* ------------------------------------------------------------- C14
\* the places of get_connection and drop that are inside a closure, under the lock
LockHeldPcs == {"gc_check", "gc_recheck", "dr_push"}

\* the arc whose lock the operation of task t uses
ArcOf(t) ==
    IF pc[t] \in {"dr_lock", "dr_push", "dr_fields"} THEN Dropping(t).pool ELSE Self(t)

\* C14: at most one task is inside a closure of a pool at a time and it is the
\* lock's holder; the vector changes only in a step of the holder (the test,
\* the pop and the push are all made inside a closure); a task in cvar.wait()
\* holds no lock and comes back to the test only through taking the lock
\* again; a task that asks for the lock holds none.
C14_LockDiscipline ==
    /\ [](/\ \A a \in DOMAIN arcs :
                Cardinality({t \in Threads : pc[t] \in LockHeldPcs /\ ArcOf(t) = a}) <= 1
          /\ \A t \in Threads :
                /\ pc[t] \in LockHeldPcs => arcs[ArcOf(t)].lock = t
                /\ pc[t] \notin LockHeldPcs => \A a \in DOMAIN arcs : arcs[a].lock # t)
    /\ [][/\ \A a \in DOMAIN arcs \cap LiveArcs(arcs') :
                arcs'[a].data.pool # Idle(a) =>
                    /\ arcs[a].lock # None
                    /\ pc[arcs[a].lock] \in LockHeldPcs
                    /\ pc'[arcs[a].lock] # pc[arcs[a].lock]
          /\ \A t \in Threads :
                /\ pc[t] = "gc_wait" => pc'[t] \in {"gc_wait", "gc_relock"}
                /\ (pc[t] = "gc_relock" /\ pc'[t] # "gc_relock") =>
                      /\ pc'[t] = "gc_recheck"
                      /\ arcs[Self(t)].lock = None
                      /\ arcs'[Self(t)].lock = t]_vars

\* a woken task has the lock again and is at the test, a second task still
\* waits, and a third, dropping a value, asks for the lock
C14_Witness ==
    \E t, u, w \in Threads :
        /\ pc[t] = "gc_recheck" /\ arcs[Self(t)].lock = t
        /\ pc[u] = "gc_wait"
        /\ pc[w] = "dr_lock"
\* ------------------------------------------------------------- C15
\* the places of a drop that has started and not yet ended
DropPcs == {"dr_lock", "dr_push", "dr_fields"}

\* C15: a drop that has started ends: the task is granted the lock, pushes and
\* leaves drop, whatever the other tasks do and however many of them wait in
\* get_connection; and a task in drop never goes to cvar.wait().  Stated under
\* FairSpec.
C15_ReleaseCompletes ==
    /\ \A t \in Threads : (pc[t] \in DropPcs) ~> (pc[t] = "idle")
    /\ [][\A t \in Threads : pc[t] \in DropPcs => pc'[t] \in DropPcs \cup {"idle"}]_vars

\* a drop asks for the lock while it is held by a task in get_connection and
\* another task waits on the condition
C15_Witness ==
    \E t, u, w \in Threads :
        /\ pc[t] = "dr_lock"
        /\ pc[u] = "gc_wait"
        /\ pc[w] = "gc_check" /\ arcs[Dropping(t).pool].lock = w
\* ------------------------------------------------------------- C16
\* C16: a value's slot is empty only in the value whose drop has pushed and
\* that is about to go, so a method called on a value a task owns finds a
\* connection and never fails on the slot; and a step that is no step of
\* try_new, get_connection, drop or clone (a forwarded call) changes no pool's
\* vector, no slot and no value.
C16_LeaseNeverEmptyForwardNeutral ==
    /\ [](\A p \in SlotsOf(leases) :
             (pc[p[1]] = "idle" \/ cur[p[1]] # p[2]) => leases[p[1]][p[2]].conn # None)
    /\ [][/\ \A t \in Threads : pc[t] = "idle" => pc'[t] # "failed"
          /\ (ctor = "ok" /\ pc' = pc /\ handle' = handle) =>
                (arcs' = arcs /\ leases' = leases)]_vars

\* a method called on a held value failed its task on a database error: the
\* value still holds its connection, as does the value of another task
C16_Witness ==
    \E t, u \in Threads :
        /\ t # u
        /\ failing[t] /\ pc[t] = "idle"
        /\ \E i \in 1 .. Len(leases[t]) : leases[t][i].conn # None
        /\ \E j \in 1 .. Len(leases[u]) : leases[u][j].conn # None
\* ------------------------------------------------------------- C17
\* the positions of a task inside get_connection
GcPcs == {"gc_check", "gc_recheck", "gc_wait", "gc_relock"}

\* every connection of the pool of arc a is in a PooledPostgresConnection
AllLeasedFrom(a) == ctor = "ok" /\ Cardinality(HeldFrom(leases, a)) = pool_size

\* task t holds every connection of its pool and is inside get_connection
HoldsAllAndAcquires(t, p, ls) ==
    /\ ctor = "ok"
    /\ p[t] \in GcPcs
    /\ Len(ls[t]) = pool_size
    /\ \A i \in 1 .. Len(ls[t]) : ls[t][i].conn # None /\ ls[t][i].pool = Self(t)

\* C17: in a state where every connection of a pool is leased, a step leaves
\* every task that is inside get_connection on that pool inside it, with the
\* values it owns unchanged (no get_connection returns, none fails); and a
\* task that holds all the connections of its pool and is inside
\* get_connection is so in the next state too, hence for ever.
C17_ExhaustedPoolBlocks ==
    [][/\ \A t \in Threads :
             (pc[t] \in GcPcs /\ AllLeasedFrom(Self(t))) =>
                 (pc'[t] \in GcPcs /\ leases'[t] = leases[t])
       /\ \A t \in Threads :
             HoldsAllAndAcquires(t, pc, leases) => HoldsAllAndAcquires(t, pc', leases')]_vars

\* a task that holds every connection of a full-size pool waits in
\* get_connection, and so does a second task
C17_Witness ==
    \E t, u \in Threads :
        /\ t # u
        /\ pool_size = MaxPoolSize
        /\ HoldsAllAndAcquires(t, pc, leases)
        /\ pc[t] = "gc_wait" /\ pc[u] = "gc_wait"
\* ------------------------------------------------------------- C18
\* the values task t owns in ls that hold connection c
HoldersOf(c, ls) == {p \in HeldOf(ls) : ls[p[1]][p[2]].conn = c}

\* C18: a step changes the vector of a pool that lives on in two ways only.  It removes the
\* last element, the rest keeping its order, and that element is in a new
\* value of the task that took it (get_connection); or it appends at the end
\* the connection of the value a task is dropping, the elements before it
\* keeping their order (drop).  So the connection a drop has pushed is the last
\* element until the next pop or push, and the next pop returns it.
C18_LifoOrder ==
    [][\A a \in LiveArcs(arcs) \cap LiveArcs(arcs') :
          LET v == arcs[a].data.pool
              w == arcs'[a].data.pool
          IN  \/ w = v
              \/ /\ v # << >>
                 /\ w = SubSeq(v, 1, Len(v) - 1)
                 /\ \E t \in Threads :
                       /\ pc[t] \in {"gc_check", "gc_recheck"} /\ pc'[t] = "idle"
                       /\ HoldersOf(v[Len(v)], leases') \ HoldersOf(v[Len(v)], leases)
                             = {<<t, i>> : i \in {j \in 1 .. Len(leases'[t]) :
                                                    leases'[t][j].conn = v[Len(v)]}}
                       /\ HoldersOf(v[Len(v)], leases') # {}
              \/ \E t \in Threads :
                    /\ pc[t] = "dr_push" /\ Dropping(t).pool = a
                    /\ w = Append(v, Dropping(t).conn)]_vars

\* a drop has just pushed onto a non-empty vector, in an order other than that
\* of the construction, and a get_connection holds the lock for its test
C18_Witness ==
    \E t, u \in Threads : \E a \in DOMAIN arcs :
        /\ pc[t] = "dr_fields"
        /\ pc[u] = "gc_check" /\ arcs[a].lock = u
        /\ Len(Idle(a)) = MaxPoolSize
        /\ Idle(a)[1] > Idle(a)[Len(Idle(a))]
\* ------------------------------------------------------------- C19
\* C19: for the pool try_new is building, a call of new_connection whose
\* connect succeeds returns no error and a pool with the new connection
\* appended, the earlier elements and the url as they were; a call whose
\* connect fails returns the connect error and the pool as it was.  In the
\* steps of try_new: a successful call leaves the local pool one connection
\* longer, a failed one makes try_new return the error and closes exactly the
\* connections the pool had before the call.  No step changes the url of a
\* pool.
C19_NewConnectionEffect ==
    /\ [](ctor = "building" =>
            LET s == new_connection(inner, opens + 1, TRUE)
                f == new_connection(inner, opens + 1, FALSE)
            IN  /\ s.err = NoError
                /\ s.self.pool = Append(inner.pool, opens + 1)
                /\ s.self.url = inner.url
                /\ f.err = ConnectError
                /\ f.self = inner)
    /\ [][/\ (ctor = "building" /\ opens' # opens) =>
                \/ /\ ctor' = "building" /\ ret' = ret
                   /\ inner' = [inner EXCEPT !.pool = Append(@, opens')]
                   /\ open' = open \cup {opens'}
                \/ /\ ctor' = "err" /\ ret' = ConnectError
                   /\ open' = open \ Elems(inner.pool)
          /\ (ctor = "building" /\ ctor' = "ok") =>
                arcs'[handle'[Main]].data = inner
          /\ \A a \in DOMAIN arcs : arcs'[a].data.url = arcs[a].data.url]_vars

\* try_new has returned the error of a failed connect that came after
\* successful ones, whose connections are closed again
C19_Witness ==
    /\ ctor = "err" /\ ret = ConnectError
    /\ opens = MaxPoolSize /\ pool_size = MaxPoolSize
    /\ open = {}
====
